---- MODULE Spec2Model ----
(***************************************************************************)
(* EmailService (src/src/services/EmailService.js): idempotent             *)
(* submission, rate limiter, queue and single drain loop, retry rounds     *)
(* with provider fallback, per-provider circuit breakers, event emitter.   *)
(*                                                                         *)
(* JavaScript runs each handler to its next await without interruption,    *)
(* so one action is one such run: sendEmail (which has no await and calls  *)
(* processQueue without awaiting it, so the drain's synchronous prefix is  *)
(* part of the same run), and each continuation of the drain loop after    *)
(* an await (a provider call settles, a backoff timer fires, the promise   *)
(* of processEmailAttempt settles).                                        *)
(*                                                                         *)
(* Time (Date.now) is counted in minutes: 1 unit = 60000 ms.  An optional  *)
(* field (undefined in the source) is <<>> when unset and <<v>> when set.  *)
(*                                                                         *)
(* Specifications: Spec is the engine with callers of sendEmail and        *)
(* providers that may fail at any call; SpecAnyResult adds providers that  *)
(* resolve without success; SpecLong lets five minutes pass at once;       *)
(* SpecRecovery adds setFailureRate of the providers; SpecObserved adds    *)
(* on/off of listeners; SpecFair is the engine whose provider calls and    *)
(* timers complete; SpecLogger runs the engine and other callers of the    *)
(* logger on a log of any length; SpecBackoff constructs the engine with   *)
(* a range of backoff configurations.                                      *)
(***************************************************************************)
EXTENDS Integers, Sequences, FiniteSets, TLC

VARIABLES
    now,              \* Date.now()
    attempts,         \* this.attempts: the Map, as its entries in insertion order
    circuitBreakers,  \* this.circuitBreakers: provider name -> breaker
    queue,            \* this.queue
    processingQueue,  \* this.processingQueue
    rateLimitState,   \* this.rateLimitState
    pc,               \* where the drain loop is suspended
    events,           \* every emit(event, attempt) so far, in order
    calls,            \* every provider.sendEmail call so far, in order
    ret,              \* how the latest sendEmail call ended
    eventListeners,   \* this.eventListeners: event -> listeners in insertion order
    failureRate,      \* provider name -> MockEmailProvider.failureRate, in percent
    rateSetAt,        \* provider name -> Len(events) at its latest setFailureRate
    logs,             \* this.logger.logs: the entries, oldest first
    config            \* this.config

vars == <<now, attempts, circuitBreakers, queue, processingQueue,
          rateLimitState, pc, events, calls, ret, eventListeners,
          failureRate, rateSetAt, logs, config>>

-----------------------------------------------------------------------------
(* Bounds of the model *)

MaxSubmits == 3       \* sendEmail calls in one behaviour
MaxTime == 2          \* the clock stops here
MaxLongTime == 5      \* the clock of the long pause stops here
MaxRecoverySubmits == 2   \* sendEmail calls while failure rates are being set
MaxObservedSubmits == 1   \* sendEmail calls while listeners come and go
MaxListeners == 2         \* subscriptions at a time
LogLevels == {"INFO", "WARN", "ERROR"}
LogMessages == {"note"}
MaxFairSubmits == 2       \* sendEmail calls of the fair engine
MaxFairListeners == 1     \* subscriptions of the fair engine
MaxAnyResultSubmits == 2  \* sendEmail calls with providers of any result
MaxBackoffRetries == 3   \* maxRetries of the backoff configurations
MaxBackoffFactor == 2    \* their largest initial delay and multiplier
MaxBackoffDelay == 3     \* their largest cap
MaxBackoffSubmits == 2   \* sendEmail calls under these configurations
MaxLoggedSubmits == 1   \* sendEmail calls next to the logger's callers
MaxLogCalls == 2        \* calls of the logger by other callers

(* The configuration the engine is constructed with (a constructor argument) *)
maxRetries == 2
initialDelayMs == 1
maxDelayMs == 2
backoffMultiplier == 2
circuitBreakerThreshold == 2
circuitBreakerResetTime == 2
rateLimitPerMinute == 1

\* the constructor argument `config`
Configuration ==
    [maxRetries |-> maxRetries, initialDelayMs |-> initialDelayMs,
     maxDelayMs |-> maxDelayMs, backoffMultiplier |-> backoffMultiplier,
     circuitBreakerThreshold |-> circuitBreakerThreshold,
     circuitBreakerResetTime |-> circuitBreakerResetTime,
     rateLimitPerMinute |-> rateLimitPerMinute]

(* Program constants, in minutes *)
RateWindow == 1       \* 60000 ms
DedupWindow == 5      \* 300000 ms
DefaultFailureRate == 20  \* failureRate = 0.2, in percent
LogCap == 100         \* the entries the logger keeps

Providers == <<"Provider1", "Provider2">>

Emails ==
    { [to |-> "test@example.com",  subject |-> "Test Subject", body |-> "Test Body"],
      [to |-> "test2@example.com", subject |-> "Test Subject", body |-> "Test Body"],
      [to |-> "test@example.com",  subject |-> "Test Subject", body |-> "Other Body"] }

-----------------------------------------------------------------------------
(* EmailStatus, ProviderStatus *)

PENDING == "pending"
QUEUED == "queued"
SENDING == "sending"
SENT == "sent"
FAILED == "failed"
RATE_LIMITED == "rate_limited"

HEALTHY == "healthy"
DEGRADED == "degraded"
PROVIDER_FAILED == "failed"

Undefined == <<>>
Some(v) == <<v>>

ProviderNames == { Providers[k] : k \in 1..Len(Providers) }

EventKinds == {"attemptCreated", "attemptUpdated"}

\* the listeners a client subscribes: one keeps the attempt it is called
\* with, one throws
Listeners == {"recorder", "thrower"}

Throws(listener) == listener = "thrower"

-----------------------------------------------------------------------------
(* The Map of attempts *)

MapHas(map, id) == \E k \in 1..Len(map) : map[k].id = id

MapIndex(map, id) == CHOOSE k \in 1..Len(map) : map[k].id = id

MapGet(map, id) == map[MapIndex(map, id)]

\* Map.set: an existing key keeps its place, a new key goes last
MapSet(map, id, value) ==
    IF MapHas(map, id)
    THEN [map EXCEPT ![MapIndex(map, id)] = value]
    ELSE Append(map, value)

\* `${Date.now()}_${random}`: the random part is taken to differ among the
\* ids generated in the same millisecond
generateId(map, t) ==
    <<t, Cardinality({ k \in 1..Len(map) : map[k].id[1] = t })>>

\* no window test: a matching attempt of any age is a duplicate
findExistingAttempt_anyAge(map, email, t) ==
    LET Match(k) == /\ map[k].email.to = email.to
                    /\ map[k].email.subject = email.subject
                    /\ map[k].email.body = email.body
                    /\ map[k].status # FAILED
        hits == { k \in 1..Len(map) : Match(k) }
    IN  IF hits = {} THEN Undefined
        ELSE Some(map[CHOOSE k \in hits : \A j \in hits : k <= j])

\* the window test the wrong way round
findExistingAttempt_outsideWindow(map, email, t) ==
    LET Match(k) == /\ map[k].email.to = email.to
                    /\ map[k].email.subject = email.subject
                    /\ map[k].email.body = email.body
                    /\ map[k].status # FAILED
                    /\ t - map[k].createdAt > DedupWindow
        hits == { k \in 1..Len(map) : Match(k) }
    IN  IF hits = {} THEN Undefined
        ELSE Some(map[CHOOSE k \in hits : \A j \in hits : k <= j])

\* rate-limited attempts are passed over like failed ones
findExistingAttempt_ignoresRateLimited(map, email, t) ==
    LET Match(k) == /\ map[k].email.to = email.to
                    /\ map[k].email.subject = email.subject
                    /\ map[k].email.body = email.body
                    /\ map[k].status \notin {FAILED, RATE_LIMITED}
                    /\ t - map[k].createdAt < DedupWindow
        hits == { k \in 1..Len(map) : Match(k) }
    IN  IF hits = {} THEN Undefined
        ELSE Some(map[CHOOSE k \in hits : \A j \in hits : k <= j])

findExistingAttempt(map, email, t) ==
    LET Match(k) == /\ map[k].email.to = email.to
                    /\ map[k].email.subject = email.subject
                    /\ map[k].email.body = email.body
                    /\ map[k].status # FAILED
                    /\ t - map[k].createdAt < DedupWindow
        hits == { k \in 1..Len(map) : Match(k) }
    IN  IF hits = {} THEN Undefined
        ELSE Some(map[CHOOSE k \in hits : \A j \in hits : k <= j])

getAttempt(map, id) == IF MapHas(map, id) THEN Some(MapGet(map, id)) ELSE Undefined

-----------------------------------------------------------------------------
(* Rate limiter *)

\* the window is never reset
rateLimitAfterCheck_noReset(rl, t) == rl

\* the state checkRateLimit leaves behind
rateLimitAfterCheck(rl, t) ==
    IF t >= rl.resetTime
    THEN [count |-> 0, resetTime |-> t + RateWindow]
    ELSE rl

\* the ceiling compared with <= instead of <
checkRateLimit_inclusive(rl, t) == rateLimitAfterCheck(rl, t).count <= config.rateLimitPerMinute

\* the value checkRateLimit returns
checkRateLimit(rl, t) == rateLimitAfterCheck(rl, t).count < config.rateLimitPerMinute

incrementRateLimit(rl) == [rl EXCEPT !.count = @ + 1]

getRateLimitStatus ==
    [current |-> rateLimitState.count,
     limit |-> config.rateLimitPerMinute,
     resetTime |-> rateLimitState.resetTime]

-----------------------------------------------------------------------------
(* Circuit breakers *)

NewBreaker ==
    [isOpen |-> FALSE, failureCount |-> 0,
     lastFailureTime |-> Undefined, halfOpenRetryTime |-> Undefined]

\* whether isCircuitBreakerOpen takes its half-open branch
halfOpenDue(b, t) ==
    /\ b.isOpen
    /\ b.halfOpenRetryTime # Undefined
    /\ t >= b.halfOpenRetryTime[1]

\* a breaker that has counted a failure is treated as open
isCircuitBreakerOpen_anyFailure(b, t) ==
    (b.isOpen \/ b.failureCount > 0) /\ ~halfOpenDue(b, t)

\* no breaker is ever reported open
isCircuitBreakerOpen_neverOpen(b, t) == FALSE

\* the value isCircuitBreakerOpen returns
isCircuitBreakerOpen(b, t) == b.isOpen /\ ~halfOpenDue(b, t)

\* the half-open branch returns false without clearing the breaker
breakerAfterCheck_staysOpen(b, t) == b

\* the breaker isCircuitBreakerOpen leaves behind
breakerAfterCheck(b, t) ==
    IF halfOpenDue(b, t)
    THEN [b EXCEPT !.isOpen = FALSE, !.halfOpenRetryTime = Undefined]
    ELSE b

recordProviderSuccess(b) ==
    [b EXCEPT !.failureCount = 0, !.isOpen = FALSE,
              !.lastFailureTime = Undefined, !.halfOpenRetryTime = Undefined]

\* the breaker opens without a half-open retry time
recordProviderFailure_noResumeTime(b, t) ==
    LET b1 == [b EXCEPT !.failureCount = @ + 1, !.lastFailureTime = Some(t)]
    IN  IF b1.failureCount >= config.circuitBreakerThreshold
        THEN [b1 EXCEPT !.isOpen = TRUE]
        ELSE b1

\* the threshold compared with > instead of >=
recordProviderFailure_aboveThreshold(b, t) ==
    LET b1 == [b EXCEPT !.failureCount = @ + 1, !.lastFailureTime = Some(t)]
    IN  IF b1.failureCount > config.circuitBreakerThreshold
        THEN [b1 EXCEPT !.isOpen = TRUE,
                        !.halfOpenRetryTime = Some(t + config.circuitBreakerResetTime)]
        ELSE b1

\* the breaker opens only by the failure that brings the count to the threshold
recordProviderFailure_atThresholdOnly(b, t) ==
    LET b1 == [b EXCEPT !.failureCount = @ + 1, !.lastFailureTime = Some(t)]
    IN  IF b1.failureCount = config.circuitBreakerThreshold
        THEN [b1 EXCEPT !.isOpen = TRUE,
                        !.halfOpenRetryTime = Some(t + config.circuitBreakerResetTime)]
        ELSE b1

recordProviderFailure(b, t) ==
    LET b1 == [b EXCEPT !.failureCount = @ + 1, !.lastFailureTime = Some(t)]
    IN  IF b1.failureCount >= config.circuitBreakerThreshold
        THEN [b1 EXCEPT !.isOpen = TRUE,
                        !.halfOpenRetryTime = Some(t + config.circuitBreakerResetTime)]
        ELSE b1

\* failureCount tested before isOpen
providerStatusOf_countFirst(name, b) ==
    [name |-> name,
     status |-> IF b.failureCount > 0 THEN DEGRADED
                ELSE IF b.isOpen THEN PROVIDER_FAILED
                ELSE HEALTHY,
     circuitBreaker |-> b]

providerStatusOf(name, b) ==
    [name |-> name,
     status |-> IF b.isOpen THEN PROVIDER_FAILED
                ELSE IF b.failureCount > 0 THEN DEGRADED
                ELSE HEALTHY,
     circuitBreaker |-> b]

getProviderStatus ==
    [k \in 1..Len(Providers) |->
        providerStatusOf(Providers[k], circuitBreakers[Providers[k]])]

getQueueStatus == [queueLength |-> Len(queue), processing |-> processingQueue]

-----------------------------------------------------------------------------
(* The logger *)

\* the newest entry goes instead of the oldest (pop for shift)
log_dropsNewest(entries, level, message) ==
    LET pushed == Append(entries, [level |-> level, message |-> message])
    IN  IF Len(pushed) > LogCap THEN SubSeq(pushed, 1, LogCap) ELSE pushed

\* Logger.log: an entry keeps its level and message (its timestamp and data
\* are left out); the oldest entry goes once there are more than LogCap
log(entries, level, message) ==
    LET pushed == Append(entries, [level |-> level, message |-> message])
    IN  IF Len(pushed) > LogCap THEN Tail(pushed) ELSE pushed

\* Logger.clearLogs
clearLogs(entries) == <<>>

\* Logger.getLogs: a copy of the entries
getLogs == logs

-----------------------------------------------------------------------------
(* The engine's state as one value, for the code that runs between awaits *)

Engine ==
    [attempts |-> attempts, circuitBreakers |-> circuitBreakers, queue |-> queue,
     processingQueue |-> processingQueue, rateLimitState |-> rateLimitState,
     pc |-> pc, events |-> events, calls |-> calls,
     eventListeners |-> eventListeners, logs |-> logs]

\* this.logger.info / warn / error
info(m, message) == [m EXCEPT !.logs = log(@, "INFO", message)]

warn(m, message) == [m EXCEPT !.logs = log(@, "WARN", message)]

error(m, message) == [m EXCEPT !.logs = log(@, "ERROR", message)]

\* one 'Event listener error' entry for each listener that threw
RECURSIVE listenerErrors(_, _)
listenerErrors(m, n) ==
    IF n = 0 THEN m ELSE listenerErrors(error(m, "Event listener error"), n - 1)

Idle == [at |-> "idle", id |-> Undefined, round |-> 0, provider |-> 0, wakeAt |-> 0]

\* suspended in `await provider.sendEmail(attempt.email)`
AtProvider(id, i, p) ==
    [at |-> "provider", id |-> Some(id), round |-> i, provider |-> p, wakeAt |-> 0]

\* suspended in `await new Promise(resolve => setTimeout(resolve, delay))`
AtBackoff(id, i, wake) ==
    [at |-> "backoff", id |-> Some(id), round |-> i, provider |-> 0, wakeAt |-> wake]

\* processEmailAttempt is over; processQueue is suspended in its await of it
AtAttemptDone(id) ==
    [at |-> "attemptDone", id |-> Some(id), round |-> 0, provider |-> 0, wakeAt |-> 0]

\* every event published as attemptUpdated
emit_alwaysUpdated(m, event, attempt) ==
    [m EXCEPT !.events = Append(@, [event |-> "attemptUpdated", id |-> attempt.id,
                                    status |-> attempt.status,
                                    attempts |-> attempt.attempts,
                                    delivered |-> m.eventListeners["attemptUpdated"],
                                    caught |-> SelectSeq(m.eventListeners["attemptUpdated"],
                                                         Throws)])]

\* the listeners called by a forEach that the first throw ends
UpToFirstThrow(listeners) ==
    IF \E k \in 1..Len(listeners) : Throws(listeners[k])
    THEN SubSeq(listeners, 1, CHOOSE k \in 1..Len(listeners) :
                                 /\ Throws(listeners[k])
                                 /\ \A j \in 1..(k - 1) : ~Throws(listeners[j]))
    ELSE listeners

\* no try/catch around the call of the listener
emit_noCatch(m, event, attempt) ==
    [m EXCEPT !.events = Append(@, [event |-> event, id |-> attempt.id,
                                    status |-> attempt.status,
                                    attempts |-> attempt.attempts,
                                    delivered |-> UpToFirstThrow(m.eventListeners[event]),
                                    caught |-> <<>>])]

\* emit(event, data): the entry of events keeps what data held at the call,
\* the listeners that were called with it (delivered) and those whose error
\* was caught and logged (caught)
emit(m, event, attempt) ==
    LET caught == SelectSeq(m.eventListeners[event], Throws)
    IN  [listenerErrors(m, Len(caught)) EXCEPT
           !.events = Append(@, [event |-> event, id |-> attempt.id,
                                 status |-> attempt.status,
                                 attempts |-> attempt.attempts,
                                 delivered |-> m.eventListeners[event],
                                 caught |-> caught])]

\* attempt.<field> = ...; this.attempts.set(attempt.id, attempt)
store(m, attempt) == [m EXCEPT !.attempts = MapSet(@, attempt.id, attempt)]

RECURSIVE Pow(_, _)
Pow(b, e) == IF e = 0 THEN 1 ELSE b * Pow(b, e - 1)

Min(a, b) == IF a <= b THEN a ELSE b

\* the delay without its cap
backoffDelay_uncapped(i) == config.initialDelayMs * Pow(config.backoffMultiplier, i)

backoffDelay(i) == Min(config.initialDelayMs * Pow(config.backoffMultiplier, i), config.maxDelayMs)

\* all retries exhausted
markFailed(m, id, t) ==
    LET a == [MapGet(m.attempts, id) EXCEPT !.status = FAILED, !.updatedAt = t]
    IN  [error(emit(store(m, a), "attemptUpdated", a),
               "Email failed after all retries") EXCEPT !.pc = AtAttemptDone(id)]

\* the loop over the providers of round i from the p-th on, up to the next await
RECURSIVE tryProviders(_, _, _, _, _)
tryProviders(m, id, i, p, t) ==
    IF p > Len(Providers)
    THEN IF i < config.maxRetries - 1
         THEN [info(m, "All providers failed, retrying after delay") EXCEPT
                 !.pc = AtBackoff(id, i, t + backoffDelay(i))]
         ELSE markFailed(m, id, t)
    ELSE LET name == Providers[p]
             b == m.circuitBreakers[name]
             checked == IF halfOpenDue(b, t)
                        THEN info(m, "Circuit breaker half-open") ELSE m
         IN  IF isCircuitBreakerOpen(b, t)
             THEN tryProviders(warn(m, "Circuit breaker open, skipping provider"),
                               id, i, p + 1, t)
             ELSE [info(checked, "Attempting to send email") EXCEPT
                     !.circuitBreakers[name] = breakerAfterCheck(b, t),
                     !.calls = Append(@, [id |-> id, provider |-> name, round |-> i,
                                          probe |-> halfOpenDue(b, t),
                                          result |-> "pending"]),
                     !.pc = AtProvider(id, i, p)]

\* the attempt count one short
startRound_countsFromZero(m, id, i, t) ==
    LET a == [MapGet(m.attempts, id) EXCEPT !.attempts = i, !.updatedAt = t]
    IN  tryProviders(emit(store(m, a), "attemptUpdated", a), id, i, 1, t)

\* the head of the retry loop for round i
startRound(m, id, i, t) ==
    LET a == [MapGet(m.attempts, id) EXCEPT !.attempts = i + 1, !.updatedAt = t]
    IN  tryProviders(emit(store(m, a), "attemptUpdated", a), id, i, 1, t)

\* the attempt is never marked as sending
processEmailAttempt_skipsSending(m, id, t) ==
    IF 0 < config.maxRetries THEN startRound(m, id, 0, t) ELSE markFailed(m, id, t)

processEmailAttempt(m, id, t) ==
    LET a == [MapGet(m.attempts, id) EXCEPT !.status = SENDING]
        m1 == emit(store(m, a), "attemptUpdated", a)
    IN  IF 0 < config.maxRetries THEN startRound(m1, id, 0, t) ELSE markFailed(m1, id, t)

\* the loop takes the newest entry of the queue (pop for shift)
drain_takesLast(m, t) ==
    IF Len(m.queue) > 0
    THEN processEmailAttempt([m EXCEPT !.queue = SubSeq(@, 1, Len(@) - 1)],
                             m.queue[Len(m.queue)], t)
    ELSE [m EXCEPT !.processingQueue = FALSE, !.pc = Idle]

\* an if for the while: the loop ends after one attempt
drain_oneAttempt(m, t) ==
    IF Len(m.queue) > 0 /\ m.pc.at # "attemptDone"
    THEN processEmailAttempt([m EXCEPT !.queue = Tail(@)], Head(m.queue), t)
    ELSE [m EXCEPT !.processingQueue = FALSE, !.pc = Idle]

\* the loop ends when the attempt it has just processed failed
drain_stopsAfterFailure(m, t) ==
    IF /\ Len(m.queue) > 0
       /\ ~(m.pc.at = "attemptDone" /\ MapGet(m.attempts, m.pc.id[1]).status = FAILED)
    THEN processEmailAttempt([m EXCEPT !.queue = Tail(@)], Head(m.queue), t)
    ELSE [m EXCEPT !.processingQueue = FALSE, !.pc = Idle]

\* the while loop of processQueue, up to the next await
RECURSIVE drain(_, _)
drain(m, t) ==
    IF Len(m.queue) > 0
    THEN LET id == Head(m.queue)
             m1 == [m EXCEPT !.queue = Tail(@)]
         IN  IF ~MapHas(m1.attempts, id) THEN drain(m1, t)
             ELSE processEmailAttempt(m1, id, t)
    ELSE [m EXCEPT !.processingQueue = FALSE, !.pc = Idle]

\* no test of the processingQueue flag: every call starts a drain loop
processQueue_noGuard(m, t) == drain([m EXCEPT !.processingQueue = TRUE], t)

\* the processingQueue flag is tested but never set
processQueue_flagNotSet(m, t) ==
    IF m.processingQueue THEN m
    ELSE drain(m, t)

processQueue(m, t) ==
    IF m.processingQueue THEN m
    ELSE drain([m EXCEPT !.processingQueue = TRUE], t)

\* the success branch without its return: the provider loop goes on
providerSucceeded_noReturn(m, t) ==
    LET id == m.pc.id[1]
        name == Providers[m.pc.provider]
        a == [MapGet(m.attempts, id) EXCEPT
                 !.status = SENT, !.sentAt = Some(t),
                 !.messageId = Some(<<name, t>>), !.provider = Some(name)]
        m1 == [store(m, a) EXCEPT
                 !.circuitBreakers[name] = recordProviderSuccess(@),
                 !.rateLimitState = incrementRateLimit(@)]
    IN  tryProviders(emit(m1, "attemptUpdated", a), id, m.pc.round, m.pc.provider + 1, t)

\* after the success branch the dispatcher sleeps as if the round had failed
providerSucceeded_sleeps(m, t) ==
    LET id == m.pc.id[1]
        name == Providers[m.pc.provider]
        a == [MapGet(m.attempts, id) EXCEPT
                 !.status = SENT, !.sentAt = Some(t),
                 !.messageId = Some(<<name, t>>), !.provider = Some(name)]
        m1 == [store(m, a) EXCEPT
                 !.circuitBreakers[name] = recordProviderSuccess(@),
                 !.rateLimitState = incrementRateLimit(@)]
    IN  [info(emit(m1, "attemptUpdated", a), "Email sent successfully") EXCEPT
           !.pc = AtBackoff(id, m.pc.round, t + backoffDelay(m.pc.round))]

\* the provider's name is not recorded on the attempt
providerSucceeded_noProvider(m, t) ==
    LET id == m.pc.id[1]
        name == Providers[m.pc.provider]
        a == [MapGet(m.attempts, id) EXCEPT
                 !.status = SENT, !.sentAt = Some(t),
                 !.messageId = Some(<<name, t>>)]
        m1 == [store(m, a) EXCEPT
                 !.circuitBreakers[name] = recordProviderSuccess(@),
                 !.rateLimitState = incrementRateLimit(@)]
    IN  [info(emit(m1, "attemptUpdated", a), "Email sent successfully") EXCEPT
           !.pc = AtAttemptDone(id)]

\* the provider's result has success set
providerSucceeded(m, t) ==
    LET id == m.pc.id[1]
        name == Providers[m.pc.provider]
        a == [MapGet(m.attempts, id) EXCEPT
                 !.status = SENT, !.sentAt = Some(t),
                 !.messageId = Some(<<name, t>>), !.provider = Some(name)]
        m1 == [store(m, a) EXCEPT
                 !.circuitBreakers[name] = recordProviderSuccess(@),
                 !.rateLimitState = incrementRateLimit(@)]
    IN  [info(emit(m1, "attemptUpdated", a), "Email sent successfully") EXCEPT
           !.pc = AtAttemptDone(id)]

\* a failure ends the round instead of falling back to the next provider
providerThrew_noFallback(m, t) ==
    LET id == m.pc.id[1]
        name == Providers[m.pc.provider]
        a == [MapGet(m.attempts, id) EXCEPT !.error = Some(<<name, "provider failure">>)]
        m1 == [m EXCEPT !.circuitBreakers[name] = recordProviderFailure(@, t),
                        !.attempts = MapSet(@, id, a)]
    IN  tryProviders(m1, id, m.pc.round, Len(Providers) + 1, t)

\* the failure is recorded on the breaker of every provider
providerThrew_failsAll(m, t) ==
    LET id == m.pc.id[1]
        name == Providers[m.pc.provider]
        a == [MapGet(m.attempts, id) EXCEPT !.error = Some(<<name, "provider failure">>)]
        m1 == [error(m, "Provider failed to send email") EXCEPT
                 !.circuitBreakers = [n \in ProviderNames |-> recordProviderFailure(@[n], t)],
                 !.attempts = MapSet(@, id, a)]
    IN  tryProviders(m1, id, m.pc.round, m.pc.provider + 1, t)

\* the provider's promise rejects
providerThrew(m, t) ==
    LET id == m.pc.id[1]
        name == Providers[m.pc.provider]
        a == [MapGet(m.attempts, id) EXCEPT !.error = Some(<<name, "provider failure">>)]
        b == recordProviderFailure(m.circuitBreakers[name], t)
        m1 == [error(m, "Provider failed to send email") EXCEPT
                 !.circuitBreakers[name] = b, !.attempts = MapSet(@, id, a)]
        m2 == IF b.failureCount >= config.circuitBreakerThreshold
              THEN warn(m1, "Circuit breaker opened") ELSE m1
    IN  tryProviders(m2, id, m.pc.round, m.pc.provider + 1, t)

\* the provider's result has no success set: neither branch runs
providerReturnedNoSuccess(m, t) ==
    tryProviders(m, m.pc.id[1], m.pc.round, m.pc.provider + 1, t)

\* the result of the pending call
settle(m, result) == [m EXCEPT !.calls[Len(m.calls)].result = result]

\* the rate limit is checked before the ledger is searched for a duplicate
sendEmail_admissionFirst(m, email, t) ==
    LET attemptId == generateId(m.attempts, t)
        existingAttempt == findExistingAttempt(m.attempts, email, t)
        attempt == [id |-> attemptId, email |-> email, status |-> PENDING,
                    attempts |-> 0, maxAttempts |-> config.maxRetries,
                    createdAt |-> t, updatedAt |-> t,
                    sentAt |-> Undefined, messageId |-> Undefined,
                    provider |-> Undefined, error |-> Undefined]
        m1 == emit(store(m, attempt), "attemptCreated", attempt)
        m2 == [m1 EXCEPT !.rateLimitState = rateLimitAfterCheck(@, t)]
        limited == [attempt EXCEPT !.status = RATE_LIMITED,
                                   !.error = Some(<<"Rate limit exceeded">>)]
        queued == [attempt EXCEPT !.status = QUEUED]
        m3 == [m2 EXCEPT !.queue = Append(@, attemptId)]
    IN  IF ~checkRateLimit(m.rateLimitState, t)
        THEN [engine |-> warn(emit(store(m2, limited), "attemptUpdated", limited),
                              "Rate limit exceeded"),
              outcome |-> "threw", id |-> Some(attemptId), created |-> TRUE]
        ELSE IF existingAttempt # Undefined
        THEN [engine |-> warn([m EXCEPT !.rateLimitState = rateLimitAfterCheck(@, t)],
                              "Duplicate email detected"),
              outcome |-> "returned",
              id |-> Some(existingAttempt[1].id), created |-> FALSE]
        ELSE [engine |-> processQueue(info(emit(store(m3, queued), "attemptUpdated",
                                               queued),
                                          "Email queued for sending"), t),
              outcome |-> "returned", id |-> Some(attemptId), created |-> TRUE]

\* sendEmail: the engine it leaves behind and how it ends
sendEmail(m, email, t) ==
    LET attemptId == generateId(m.attempts, t)
        existingAttempt == findExistingAttempt(m.attempts, email, t)
        attempt == [id |-> attemptId, email |-> email, status |-> PENDING,
                    attempts |-> 0, maxAttempts |-> config.maxRetries,
                    createdAt |-> t, updatedAt |-> t,
                    sentAt |-> Undefined, messageId |-> Undefined,
                    provider |-> Undefined, error |-> Undefined]
        m1 == emit(store(m, attempt), "attemptCreated", attempt)
        m2 == [m1 EXCEPT !.rateLimitState = rateLimitAfterCheck(@, t)]
        limited == [attempt EXCEPT !.status = RATE_LIMITED,
                                   !.error = Some(<<"Rate limit exceeded">>)]
        queued == [attempt EXCEPT !.status = QUEUED]
        m3 == [m2 EXCEPT !.queue = Append(@, attemptId)]
    IN  IF existingAttempt # Undefined
        THEN [engine |-> warn(m, "Duplicate email detected"), outcome |-> "returned",
              id |-> Some(existingAttempt[1].id), created |-> FALSE]
        ELSE IF ~checkRateLimit(m1.rateLimitState, t)
        THEN [engine |-> warn(emit(store(m2, limited), "attemptUpdated", limited),
                              "Rate limit exceeded"),
              outcome |-> "threw", id |-> Some(attemptId), created |-> TRUE]
        ELSE [engine |-> processQueue(info(emit(store(m3, queued), "attemptUpdated",
                                               queued),
                                          "Email queued for sending"), t),
              outcome |-> "returned", id |-> Some(attemptId), created |-> TRUE]

-----------------------------------------------------------------------------
(* The state machine *)

Init ==
    /\ now = 0
    /\ attempts = <<>>
    /\ circuitBreakers = [name \in ProviderNames |-> NewBreaker]
    /\ queue = <<>>
    /\ processingQueue = FALSE
    /\ rateLimitState = [count |-> 0, resetTime |-> RateWindow]
    /\ pc = Idle
    /\ events = <<>>
    /\ calls = <<>>
    /\ ret = [n |-> 0, email |-> Undefined, outcome |-> "none", id |-> Undefined,
              created |-> FALSE]
    /\ eventListeners = [event \in EventKinds |-> <<>>]
    /\ failureRate = [name \in ProviderNames |-> DefaultFailureRate]
    /\ rateSetAt = [name \in ProviderNames |-> 0]
    /\ logs = log(<<>>, "INFO", "EmailService initialized")
    /\ config = Configuration

Become(m) ==
    /\ attempts' = m.attempts
    /\ circuitBreakers' = m.circuitBreakers
    /\ queue' = m.queue
    /\ processingQueue' = m.processingQueue
    /\ rateLimitState' = m.rateLimitState
    /\ pc' = m.pc
    /\ events' = m.events
    /\ calls' = m.calls
    /\ eventListeners' = m.eventListeners
    /\ logs' = m.logs

\* a caller calls sendEmail(email), as one of at most limit calls
SendEmailWithin(limit) ==
    /\ ret.n < limit
    /\ \E email \in Emails :
         LET r == sendEmail(Engine, email, now)
         IN  /\ Become(r.engine)
             /\ ret' = [n |-> ret.n + 1, email |-> Some(email), outcome |-> r.outcome,
                        id |-> r.id, created |-> r.created]
    /\ UNCHANGED <<now, failureRate, rateSetAt, config>>

SendEmail == SendEmailWithin(MaxSubmits)

\* the pending provider call resolves with success
ProviderSucceeds ==
    /\ pc.at = "provider"
    /\ failureRate[Providers[pc.provider]] < 100
    /\ \E m \in {providerSucceeded(settle(Engine, "success"), now)} : Become(m)
    /\ UNCHANGED <<now, ret, failureRate, rateSetAt, config>>

\* the pending provider call rejects
ProviderThrows ==
    /\ pc.at = "provider"
    /\ failureRate[Providers[pc.provider]] > 0
    /\ \E m \in {providerThrew(settle(Engine, "failure"), now)} : Become(m)
    /\ UNCHANGED <<now, ret, failureRate, rateSetAt, config>>

\* the pending provider call resolves without success
ProviderReturnsNoSuccess ==
    /\ pc.at = "provider"
    /\ \E m \in {providerReturnedNoSuccess(settle(Engine, "noSuccess"), now)} : Become(m)
    /\ UNCHANGED <<now, ret, failureRate, rateSetAt, config>>

\* the backoff timer fires
BackoffEnds ==
    /\ pc.at = "backoff"
    /\ now >= pc.wakeAt
    /\ \E m \in {startRound(Engine, pc.id[1], pc.round + 1, now)} : Become(m)
    /\ UNCHANGED <<now, ret, failureRate, rateSetAt, config>>

\* processQueue resumes after processEmailAttempt
AttemptDone ==
    /\ pc.at = "attemptDone"
    /\ \E m \in {drain(Engine, now)} : Become(m)
    /\ UNCHANGED <<now, ret, failureRate, rateSetAt, config>>

Tick ==
    /\ now < MaxTime
    /\ now' = now + 1
    /\ UNCHANGED <<attempts, circuitBreakers, queue, processingQueue,
                   rateLimitState, pc, events, calls, ret, eventListeners,
                   failureRate, rateSetAt, logs, config>>

Next ==
    \/ SendEmail
    \/ ProviderSucceeds
    \/ ProviderThrows
    \/ BackoffEnds
    \/ AttemptDone
    \/ Tick

Spec == Init /\ [][Next]_vars

\* providers that may also resolve without success
NextAnyResult ==
    \/ SendEmailWithin(MaxAnyResultSubmits)
    \/ ProviderSucceeds
    \/ ProviderThrows
    \/ ProviderReturnsNoSuccess
    \/ BackoffEnds
    \/ AttemptDone
    \/ Tick

SpecAnyResult == Init /\ [][NextAnyResult]_vars

\* a test sets a provider to always succeed (0) or always fail (1)
SetFailureRate ==
    /\ \E name \in ProviderNames : \E rate \in {0, 100} :
          /\ failureRate[name] # rate
          /\ failureRate' = [failureRate EXCEPT ![name] = rate]
          /\ rateSetAt' = [rateSetAt EXCEPT ![name] = Len(events)]
    /\ UNCHANGED <<now, attempts, circuitBreakers, queue, processingQueue,
                   rateLimitState, pc, events, calls, ret, eventListeners, logs, config>>

\* the engine with providers whose failure rate a test changes
NextRecovery ==
    \/ SendEmailWithin(MaxRecoverySubmits)
    \/ ProviderSucceeds
    \/ ProviderThrows
    \/ BackoffEnds
    \/ AttemptDone
    \/ Tick
    \/ SetFailureRate

SpecRecovery == Init /\ [][NextRecovery]_vars

\* Set.add: a listener already in the set keeps its place
on(listeners, event, listener) ==
    IF \E k \in 1..Len(listeners[event]) : listeners[event][k] = listener
    THEN listeners
    ELSE [listeners EXCEPT ![event] = Append(@, listener)]

\* Set.delete
off(listeners, event, listener) ==
    [listeners EXCEPT ![event] = SelectSeq(@, LAMBDA l : l # listener)]

\* the subscriptions there are
Subscriptions(listeners) ==
    Len(listeners["attemptCreated"]) + Len(listeners["attemptUpdated"])

\* a client subscribes a listener, before the first message is submitted,
\* as one of at most limit subscriptions
OnWithin(limit) ==
    /\ events = <<>>
    /\ Subscriptions(eventListeners) < limit
    /\ \E event \in EventKinds : \E listener \in Listeners :
          eventListeners' = on(eventListeners, event, listener)
    /\ UNCHANGED <<now, attempts, circuitBreakers, queue, processingQueue,
                   rateLimitState, pc, events, calls, ret, failureRate, rateSetAt, logs, config>>

\* a client unsubscribes a listener
Off ==
    /\ \E event \in EventKinds : \E listener \in Listeners :
          eventListeners' = off(eventListeners, event, listener)
    /\ UNCHANGED <<now, attempts, circuitBreakers, queue, processingQueue,
                   rateLimitState, pc, events, calls, ret, failureRate, rateSetAt, logs, config>>

On == OnWithin(MaxListeners)

\* the engine with clients that subscribe and unsubscribe
NextObserved ==
    \/ SendEmailWithin(MaxObservedSubmits)
    \/ ProviderSucceeds
    \/ ProviderThrows
    \/ BackoffEnds
    \/ AttemptDone
    \/ Tick
    \/ On
    \/ Off

SpecObserved == Init /\ [][NextObserved]_vars

\* time passes while the dispatcher sleeps
TimerTick ==
    /\ pc.at = "backoff"
    /\ now < pc.wakeAt
    /\ now' = now + 1
    /\ UNCHANGED <<attempts, circuitBreakers, queue, processingQueue,
                   rateLimitState, pc, events, calls, ret, eventListeners,
                   failureRate, rateSetAt, logs, config>>

\* the engine whose provider calls and timers complete; provider calls are
\* short and the clock moves while the dispatcher sleeps
NextFair ==
    \/ SendEmailWithin(MaxFairSubmits)
    \/ ProviderSucceeds
    \/ ProviderThrows
    \/ BackoffEnds
    \/ AttemptDone
    \/ TimerTick
    \/ OnWithin(MaxFairListeners)

SpecFair ==
    /\ Init
    /\ [][NextFair]_vars
    /\ WF_vars(ProviderSucceeds \/ ProviderThrows)
    /\ WF_vars(TimerTick)
    /\ WF_vars(BackoffEnds)
    /\ WF_vars(AttemptDone)

\* nothing happens for the length of the dedup window
LongPause ==
    /\ now + DedupWindow <= MaxLongTime
    /\ now' = now + DedupWindow
    /\ UNCHANGED <<attempts, circuitBreakers, queue, processingQueue,
                   rateLimitState, pc, events, calls, ret, eventListeners,
                   failureRate, rateSetAt, logs, config>>

\* the engine used with a pause of five minutes
NextLong ==
    \/ SendEmail
    \/ ProviderSucceeds
    \/ ProviderThrows
    \/ BackoffEnds
    \/ AttemptDone
    \/ LongPause

SpecLong == Init /\ [][NextLong]_vars

\* a log that n earlier calls of the logger filled, the k-th with message k
Filled(n) == [k \in 1..n |-> [level |-> "INFO", message |-> ToString(k)]]

\* the engine just constructed around a logger that is empty, nearly full or full
InitLogger ==
    /\ now = 0
    /\ attempts = <<>>
    /\ circuitBreakers = [name \in ProviderNames |-> NewBreaker]
    /\ queue = <<>>
    /\ processingQueue = FALSE
    /\ rateLimitState = [count |-> 0, resetTime |-> RateWindow]
    /\ pc = Idle
    /\ events = <<>>
    /\ calls = <<>>
    /\ ret = [n |-> 0, email |-> Undefined, outcome |-> "none", id |-> Undefined,
              created |-> FALSE]
    /\ eventListeners = [event \in EventKinds |-> <<>>]
    /\ failureRate = [name \in ProviderNames |-> DefaultFailureRate]
    /\ rateSetAt = [name \in ProviderNames |-> 0]
    /\ logs \in {log(Filled(n), "INFO", "EmailService initialized") :
                    n \in {0, LogCap - 2, LogCap - 1, LogCap}}
    /\ config = Configuration

\* the entries in the log that LogCall wrote
Written == {k \in 1..Len(logs) : logs[k].message \in LogMessages}

\* a holder of the logger calls info, warn or error
LogCall ==
    /\ Cardinality(Written) < MaxLogCalls
    /\ \E level \in LogLevels, message \in LogMessages :
         logs' = log(logs, level, message)
    /\ UNCHANGED <<now, attempts, circuitBreakers, queue, processingQueue,
                   rateLimitState, pc, events, calls, ret, eventListeners,
                   failureRate, rateSetAt, config>>

\* a client calls clearLogs()
ClearLogs ==
    /\ logs # <<>>
    /\ logs' = clearLogs(logs)
    /\ UNCHANGED <<now, attempts, circuitBreakers, queue, processingQueue,
                   rateLimitState, pc, events, calls, ret, eventListeners,
                   failureRate, rateSetAt, config>>

\* the engine and other callers writing to a log of any length
NextLogger ==
    \/ SendEmailWithin(MaxLoggedSubmits)
    \/ ProviderSucceeds
    \/ ProviderThrows
    \/ BackoffEnds
    \/ AttemptDone
    \/ Tick
    \/ LogCall
    \/ ClearLogs

SpecLogger == InitLogger /\ [][NextLogger]_vars

\* the configurations of the backoff schedule: every initial delay and
\* multiplier up to MaxBackoffFactor with every cap up to MaxBackoffDelay
BackoffConfigs ==
    { [Configuration EXCEPT !.maxRetries = MaxBackoffRetries,
                            !.initialDelayMs = initial,
                            !.backoffMultiplier = multiplier,
                            !.maxDelayMs = cap] :
        initial \in 1..MaxBackoffFactor, multiplier \in 1..MaxBackoffFactor,
        cap \in 1..MaxBackoffDelay }

\* the engine just constructed with one of these configurations
InitBackoff ==
    /\ now = 0
    /\ attempts = <<>>
    /\ circuitBreakers = [name \in ProviderNames |-> NewBreaker]
    /\ queue = <<>>
    /\ processingQueue = FALSE
    /\ rateLimitState = [count |-> 0, resetTime |-> RateWindow]
    /\ pc = Idle
    /\ events = <<>>
    /\ calls = <<>>
    /\ ret = [n |-> 0, email |-> Undefined, outcome |-> "none", id |-> Undefined,
              created |-> FALSE]
    /\ eventListeners = [event \in EventKinds |-> <<>>]
    /\ failureRate = [name \in ProviderNames |-> DefaultFailureRate]
    /\ rateSetAt = [name \in ProviderNames |-> 0]
    /\ logs = log(<<>>, "INFO", "EmailService initialized")
    /\ config \in BackoffConfigs

\* the engine whose clock advances only while the dispatcher sleeps
NextBackoff ==
    \/ SendEmailWithin(MaxBackoffSubmits)
    \/ ProviderSucceeds
    \/ ProviderThrows
    \/ BackoffEnds
    \/ AttemptDone
    \/ TimerTick

SpecBackoff == InitBackoff /\ [][NextBackoff]_vars

-----------------------------------------------------------------------------
(* Vocabulary of the properties *)

Terminal(status) == status \in {SENT, FAILED, RATE_LIMITED}

SameMessage(e1, e2) ==
    e1.to = e2.to /\ e1.subject = e2.subject /\ e1.body = e2.body

\* the ledger entries a submission of email at time t is a duplicate of
Duplicates(map, email, t) ==
    { k \in 1..Len(map) : /\ SameMessage(map[k].email, email)
                          /\ map[k].status # FAILED
                          /\ t - map[k].createdAt < DedupWindow }

\* this step is a call of sendEmail
IsSendEmail == ret'.n = ret.n + 1

\* the counter the limiter compares, after its lazy reset at time t
CountAt(rl, t) == IF t >= rl.resetTime THEN 0 ELSE rl.count

CallsOf(id) == { k \in 1..Len(calls) : calls[k].id = id }

\* the dispatcher is through with the attempt
Finished(a) ==
    /\ a.status \notin {PENDING, RATE_LIMITED}
    /\ \A k \in 1..Len(queue) : queue[k] # a.id
    /\ pc.id = Some(a.id) => pc.at = "attemptDone"

-----------------------------------------------------------------------------
(* C1 - Idempotent submission: a sendEmail call with a message whose (to,  *)
(* subject, body) equals that of an existing attempt that is not failed    *)
(* and was created less than the dedup window ago returns that attempt's   *)
(* id and creates nothing: ledger, queue and published events are as       *)
(* before, and the ledger holds exactly one such attempt for the triple.   *)
C1_IdempotentSubmission ==
    [][ (IsSendEmail /\ Duplicates(attempts, ret'.email[1], now) # {})
        => /\ ret'.outcome = "returned"
           /\ \E k \in Duplicates(attempts, ret'.email[1], now) :
                 ret'.id = Some(attempts[k].id)
           /\ attempts' = attempts
           /\ queue' = queue
           /\ events' = events
           /\ Cardinality(Duplicates(attempts', ret'.email[1], now)) = 1 ]_vars

\* a second submission of a message returned the id of the first
C1_Witness ==
    /\ ret.n >= 2
    /\ ret.outcome = "returned"
    /\ ~ret.created
    /\ Len(attempts) = 1
    /\ ret.id = Some(attempts[1].id)

\* the attempts admitted so far in the window a check at time t falls in
AdmittedInWindowAt(t) ==
    IF t >= rateLimitState.resetTime THEN {}
    ELSE { k \in 1..Len(attempts) :
             /\ attempts[k].status # RATE_LIMITED
             /\ attempts[k].createdAt >= rateLimitState.resetTime - RateWindow }

(* C2 - Rate limiting: of the pairwise distinct messages submitted within  *)
(* one rate-limit window exactly the first `limit` are admitted: a         *)
(* submission of a new message is rejected with the rate-limit error if    *)
(* and only if `limit` attempts have been admitted in the window already.  *)
C2_FirstLimitAdmitted ==
    [][ (IsSendEmail /\ Duplicates(attempts, ret'.email[1], now) = {})
        => (ret'.outcome = "threw"
              <=> Cardinality(AdmittedInWindowAt(now)) >= config.rateLimitPerMinute) ]_vars

\* no provider call has succeeded so far
AllCallsFailed == \A k \in 1..Len(calls) : calls[k].result # "success"

(* C3 - Retry exhaustion: while every provider call fails, an admitted     *)
(* attempt the dispatcher is through with is failed with an attempt count  *)
(* of exactly maxRetries, whatever the breakers skipped.                   *)
C3_RetryExhaustion ==
    AllCallsFailed =>
        \A k \in 1..Len(attempts) :
            Finished(attempts[k]) =>
                /\ attempts[k].status = FAILED
                /\ attempts[k].attempts = config.maxRetries
                /\ attempts[k].maxAttempts = config.maxRetries

\* an attempt failed after maxRetries rounds, some of them with providers skipped
C3_Witness ==
    /\ AllCallsFailed
    /\ \E k \in 1..Len(attempts) :
          /\ Finished(attempts[k])
          /\ attempts[k].status = FAILED
          /\ attempts[k].attempts = config.maxRetries
          /\ Cardinality(CallsOf(attempts[k].id)) < config.maxRetries * Len(Providers)

\* the first provider has failed and the second has succeeded in every call so far
FirstFailsSecondSucceeds ==
    \A k \in 1..Len(calls) :
        /\ calls[k].provider = Providers[1] => calls[k].result # "success"
        /\ calls[k].provider = Providers[2] => calls[k].result \in {"success", "pending"}

(* C4 - Fallback: while the first provider fails and the second succeeds   *)
(* in every call, every admitted attempt the dispatcher is through with    *)
(* is sent with the second provider recorded, whether the first            *)
(* provider's breaker is closed or open.                                   *)
C4_Fallback ==
    FirstFailsSecondSucceeds =>
        \A k \in 1..Len(attempts) :
            Finished(attempts[k]) =>
                /\ attempts[k].status = SENT
                /\ attempts[k].provider = Some(Providers[2])

\* an attempt was sent by the second provider with the first one skipped as open
C4_Witness ==
    /\ FirstFailsSecondSucceeds
    /\ circuitBreakers[Providers[1]].isOpen
    /\ \E k \in 1..Len(attempts) :
          /\ Finished(attempts[k])
          /\ attempts[k].status = SENT
          /\ attempts[k].provider = Some(Providers[2])
          /\ \A c \in CallsOf(attempts[k].id) : calls[c].provider # Providers[1]

(* C5 - Breaker opening: a recorded failure of a provider raises its       *)
(* failureCount by one; when that brings the count to the threshold the    *)
(* breaker is open right after, with resume time now + reset interval,     *)
(* and getProviderStatus reports it open; below the threshold the breaker  *)
(* is never open.                                                          *)
C5_BreakerOpening ==
    /\ [](\A name \in ProviderNames :
            circuitBreakers[name].failureCount < config.circuitBreakerThreshold
                => ~circuitBreakers[name].isOpen)
    /\ [][ \A p \in 1..Len(Providers) :
            (/\ pc.at = "provider"
             /\ pc.provider = p
             /\ calls'[Len(calls)].result = "failure")
            => LET b == circuitBreakers[Providers[p]]
                   b2 == circuitBreakers'[Providers[p]]
               IN  /\ b2.failureCount = b.failureCount + 1
                   /\ b2.failureCount >= config.circuitBreakerThreshold
                        => /\ b2.isOpen
                           /\ b2.halfOpenRetryTime = Some(now + config.circuitBreakerResetTime)
                           /\ getProviderStatus'[p].name = Providers[p]
                           /\ getProviderStatus'[p].circuitBreaker.isOpen ]_vars

\* a breaker has just been opened by the failure that reached the threshold
C5_Witness ==
    \E p \in 1..Len(Providers) :
        /\ getProviderStatus[p].circuitBreaker.isOpen
        /\ getProviderStatus[p].circuitBreaker.failureCount = config.circuitBreakerThreshold
        /\ getProviderStatus[p].circuitBreaker.halfOpenRetryTime
              = Some(now + config.circuitBreakerResetTime)

\* the resume time of an open breaker has elapsed
ResumeTimeElapsed(b) ==
    b.halfOpenRetryTime # Undefined /\ now >= b.halfOpenRetryTime[1]

(* C6 - Breaker recovery: the dispatcher passes over a provider only while *)
(* its breaker is open and its resume time has not elapsed; a provider     *)
(* with an open breaker whose resume time has elapsed is invoked, with     *)
(* isOpen cleared; and when that invocation succeeds the breaker is fully  *)
(* reset and the attempt is sent.                                          *)
C6_BreakerRecovery ==
    [][ /\ Len(calls') = Len(calls) + 1 =>
            LET c == calls'[Len(calls')]
                first == IF pc.at = "provider" THEN pc.provider + 1 ELSE 1
            IN  /\ pc'.at = "provider"
                /\ Providers[pc'.provider] = c.provider
                /\ \A j \in first..(pc'.provider - 1) :
                      /\ circuitBreakers[Providers[j]].isOpen
                      /\ ~ResumeTimeElapsed(circuitBreakers[Providers[j]])
                /\ c.probe = circuitBreakers[c.provider].isOpen
                /\ circuitBreakers[c.provider].isOpen =>
                      /\ ResumeTimeElapsed(circuitBreakers[c.provider])
                      /\ ~circuitBreakers'[c.provider].isOpen
                      /\ circuitBreakers'[c.provider].halfOpenRetryTime = Undefined
        /\ (/\ pc.at = "provider"
            /\ calls[Len(calls)].probe
            /\ calls'[Len(calls)].result = "success")
           => /\ circuitBreakers'[calls[Len(calls)].provider].failureCount = 0
              /\ ~circuitBreakers'[calls[Len(calls)].provider].isOpen
              /\ circuitBreakers'[calls[Len(calls)].provider].halfOpenRetryTime = Undefined
              /\ MapGet(attempts', pc.id[1]).status = SENT ]_vars

\* a half-open probe has succeeded
C6_Witness ==
    \E k \in 1..Len(calls) :
        /\ calls[k].probe
        /\ calls[k].result = "success"
        /\ circuitBreakers[calls[k].provider].failureCount = 0
        /\ MapGet(attempts, calls[k].id).status = SENT

EventsOf(id, event) ==
    { k \in 1..Len(events) : events[k].id = id /\ events[k].event = event }

(* C7 - Event ordering: for every attempt in the ledger attemptCreated has *)
(* been published exactly once for its id, before every attemptUpdated for *)
(* that id, and once the attempt is sent, failed or rate-limited at least  *)
(* one attemptUpdated for it has been published.                           *)
C7_EventOrdering ==
    \A k \in 1..Len(attempts) :
        LET created == EventsOf(attempts[k].id, "attemptCreated")
            updated == EventsOf(attempts[k].id, "attemptUpdated")
        IN  /\ Cardinality(created) = 1
            /\ \A c \in created : \A u \in updated : c < u
            /\ Terminal(attempts[k].status) => updated # {}

\* the ledger holds a sent and a rate-limited attempt
C7_Witness ==
    /\ \E k \in 1..Len(attempts) : attempts[k].status = SENT
    /\ \E k \in 1..Len(attempts) : attempts[k].status = RATE_LIMITED
    /\ \A k \in 1..Len(attempts) :
          EventsOf(attempts[k].id, "attemptUpdated") # {}

(* C8 - Status right after submission: when sendEmail returns the id of a  *)
(* newly created, admitted attempt, that attempt is queued with an attempt *)
(* count of 0.                                                             *)
C8_QueuedAtReturn ==
    [][ (IsSendEmail /\ ret'.outcome = "returned" /\ ret'.created)
        => /\ MapGet(attempts', ret'.id[1]).status = QUEUED
           /\ MapGet(attempts', ret'.id[1]).attempts = 0 ]_vars

(* C9 - Rate-limit denial: a sendEmail call of a new message made while    *)
(* the limiter is at its ceiling fails, leaves the new attempt in the      *)
(* ledger as rate-limited and changes neither the queue, the dispatcher    *)
(* nor any breaker; a rate-limited attempt is never in the queue, never    *)
(* being processed, and no provider is ever called for it.                 *)
C9_RateLimitDenial ==
    /\ [](\A k \in 1..Len(attempts) :
            attempts[k].status = RATE_LIMITED =>
                /\ \A q \in 1..Len(queue) : queue[q] # attempts[k].id
                /\ pc.id # Some(attempts[k].id)
                /\ CallsOf(attempts[k].id) = {})
    /\ [][ (/\ IsSendEmail
            /\ Duplicates(attempts, ret'.email[1], now) = {}
            /\ CountAt(rateLimitState, now) >= config.rateLimitPerMinute)
           => /\ ret'.outcome = "threw"
              /\ ret'.created
              /\ Len(attempts') = Len(attempts) + 1
              /\ attempts'[Len(attempts')].id = ret'.id[1]
              /\ attempts'[Len(attempts')].status = RATE_LIMITED
              /\ attempts'[Len(attempts')].error = Some(<<"Rate limit exceeded">>)
              /\ queue' = queue
              /\ circuitBreakers' = circuitBreakers
              /\ pc' = pc
              /\ calls' = calls ]_vars

\* a submission was denied while the dispatcher was at work on another attempt,
\* which has been delivered since
C9_Witness ==
    /\ ret.outcome = "threw"
    /\ Len(attempts) = 3
    /\ attempts[3].id = ret.id[1]
    /\ attempts[3].status = RATE_LIMITED
    /\ attempts[1].status = SENT
    /\ attempts[2].status = SENT
    /\ attempts[2].sentAt[1] > attempts[3].createdAt

(* C10 - Terminal statuses are final: once an attempt is sent, failed or   *)
(* rate-limited no step changes its status, attempt count, provider,       *)
(* messageId or error.                                                     *)
C10_TerminalIsFinal ==
    [][ \A k \in 1..Len(attempts) :
            Terminal(attempts[k].status) =>
                /\ attempts'[k].id = attempts[k].id
                /\ attempts'[k].status = attempts[k].status
                /\ attempts'[k].attempts = attempts[k].attempts
                /\ attempts'[k].provider = attempts[k].provider
                /\ attempts'[k].messageId = attempts[k].messageId
                /\ attempts'[k].error = attempts[k].error ]_vars

\* the dispatcher is at work on an attempt while the ledger holds a sent and a failed one
C10_Witness ==
    /\ pc.at = "provider"
    /\ \E k \in 1..Len(attempts) : attempts[k].status = SENT
    /\ \E k \in 1..Len(attempts) : attempts[k].status = FAILED

\* the events published for an attempt, as indices into events
AllEventsOf(id) == { k \in 1..Len(events) : events[k].id = id }

\* the status changes the attempt state machine has
StatusChanges ==
    { <<PENDING, QUEUED>>, <<QUEUED, SENDING>>, <<SENDING, SENT>>,
      <<SENDING, FAILED>>, <<PENDING, RATE_LIMITED>> }

(* C11 - Attempt state machine: the statuses an attempt is published with  *)
(* start at pending, each differs from the one before only by one of       *)
(* pending->queued, queued->sending, sending->sent, sending->failed or     *)
(* pending->rate_limited, and the last one is the status in the ledger.    *)
C11_StateMachine ==
    \A k \in 1..Len(attempts) :
        LET idx == AllEventsOf(attempts[k].id)
        IN  /\ idx # {}
            /\ \A e \in idx :
                  /\ (\A f \in idx : e <= f) => events[e].status = PENDING
                  /\ (\A f \in idx : f <= e) => events[e].status = attempts[k].status
                  /\ \A f \in idx :
                        (e < f /\ \A g \in idx : ~(e < g /\ g < f))
                        => \/ events[f].status = events[e].status
                           \/ <<events[e].status, events[f].status>> \in StatusChanges

\* the ledger holds a sent, a failed and a rate-limited attempt
C11_Witness ==
    /\ \E k \in 1..Len(attempts) : attempts[k].status = SENT
    /\ \E k \in 1..Len(attempts) : attempts[k].status = FAILED
    /\ \E k \in 1..Len(attempts) : attempts[k].status = RATE_LIMITED

\* the ledger entries that were enqueued, in the order of their submission
Admitted == { k \in 1..Len(attempts) : attempts[k].status \notin {PENDING, RATE_LIMITED} }

(* C12 - FIFO dispatch: an attempt is sending, sent or failed only when    *)
(* every attempt enqueued before it is sent or failed, and the queue holds *)
(* the queued attempts in the order they were enqueued.                    *)
C12_FifoDispatch ==
    /\ \A j \in Admitted : \A k \in Admitted :
          (j < k /\ attempts[k].status \in {SENDING, SENT, FAILED})
          => attempts[j].status \in {SENT, FAILED}
    /\ \A q \in 1..Len(queue) :
          /\ MapHas(attempts, queue[q])
          /\ MapGet(attempts, queue[q]).status = QUEUED
          /\ \A r \in 1..Len(queue) :
                q < r => MapIndex(attempts, queue[q]) < MapIndex(attempts, queue[r])
    /\ \A k \in Admitted :
          attempts[k].status = QUEUED => \E q \in 1..Len(queue) : queue[q] = attempts[k].id

\* the first attempt is done, the second is being sent, the third waits in the queue
C12_Witness ==
    /\ Len(attempts) = 3
    /\ attempts[1].status = FAILED
    /\ attempts[2].status = SENDING
    /\ attempts[3].status = QUEUED
    /\ queue = <<attempts[3].id>>

(* C15 - Rate-limit window reset: a submission of a new message made at    *)
(* or after the window's expiry time, with the counter at the ceiling, is  *)
(* admitted; the counter is reset to zero and the expiry moved to          *)
(* now + window.                                                           *)
C15_WindowReset ==
    [][ (/\ IsSendEmail
         /\ Duplicates(attempts, ret'.email[1], now) = {}
         /\ rateLimitState.count >= config.rateLimitPerMinute
         /\ now >= rateLimitState.resetTime)
        => /\ ret'.outcome = "returned"
           /\ ret'.created
           /\ MapGet(attempts', ret'.id[1]).status \in {QUEUED, SENDING}
           /\ rateLimitState' = [count |-> 0, resetTime |-> now + RateWindow] ]_vars

\* a new message was admitted after the window in which the ceiling was reached
C15_Witness ==
    /\ ret.outcome = "returned"
    /\ ret.created
    /\ rateLimitState = [count |-> 0, resetTime |-> now + RateWindow]
    /\ MapGet(attempts, ret.id[1]).createdAt = now
    /\ Cardinality({ k \in 1..Len(attempts) :
                        /\ attempts[k].status = SENT
                        /\ attempts[k].sentAt[1] < now }) >= config.rateLimitPerMinute

(* C17 - Non-blocking submission: while the dispatcher is suspended in a   *)
(* provider call or a backoff sleep a call of sendEmail runs to its end    *)
(* (it returns or throws) within its own step; the call leaves the         *)
(* dispatcher where it is, and a new admitted message gets its own ledger  *)
(* entry and is appended to the queue.                                     *)
C17_NonBlockingSubmission ==
    [][ /\ pc.at \in {"provider", "backoff"}
           => \A email \in Emails :
                 sendEmail(Engine, email, now).outcome \in {"returned", "threw"}
        /\ (IsSendEmail /\ pc.at \in {"provider", "backoff"})
           => /\ pc' = pc
              /\ calls' = calls
              /\ (/\ Duplicates(attempts, ret'.email[1], now) = {}
                  /\ CountAt(rateLimitState, now) < config.rateLimitPerMinute)
                 => /\ ret'.outcome = "returned"
                    /\ ret'.created
                    /\ Len(attempts') = Len(attempts) + 1
                    /\ attempts'[Len(attempts')].id = ret'.id[1]
                    /\ attempts'[Len(attempts')].status = QUEUED
                    /\ \A k \in 1..Len(attempts) : attempts'[k] = attempts[k]
                    /\ queue' = Append(queue, ret'.id[1]) ]_vars

\* a message was queued during a provider call, another during a backoff sleep
C17_Witness ==
    /\ pc.at = "backoff"
    /\ Len(queue) = 2
    /\ ret.outcome = "returned"
    /\ ret.created
    /\ queue[2] = ret.id[1]

(* C20 - Derived backend health: getProviderStatus lists the providers in  *)
(* configured order and reports failed iff the breaker is open, degraded   *)
(* iff it is closed with failureCount > 0, healthy iff it is closed with   *)
(* failureCount = 0; a freshly constructed engine reports all healthy.     *)
C20_DerivedHealth ==
    /\ Len(getProviderStatus) = Len(Providers)
    /\ \A k \in 1..Len(Providers) :
          LET b == circuitBreakers[Providers[k]]
              s == getProviderStatus[k]
          IN  /\ s.name = Providers[k]
              /\ s.circuitBreaker = b
              /\ s.status = PROVIDER_FAILED <=> b.isOpen
              /\ s.status = DEGRADED <=> (~b.isOpen /\ b.failureCount > 0)
              /\ s.status = HEALTHY <=> (~b.isOpen /\ b.failureCount = 0)
              /\ (ret.n = 0 /\ calls = <<>>) => s.status = HEALTHY

\* one provider is reported failed and the other degraded
C20_Witness ==
    /\ getProviderStatus[1].status = PROVIDER_FAILED
    /\ getProviderStatus[2].status = DEGRADED

\* the ledger entries with the same (to, subject, body) as email
Matching(map, email) == { k \in 1..Len(map) : SameMessage(map[k].email, email) }

\* this sendEmail step submits a message that matches only attempts created
\* at least the dedup window ago
ResubmittedAfterWindow ==
    /\ IsSendEmail
    /\ Matching(attempts, ret'.email[1]) # {}
    /\ \A k \in Matching(attempts, ret'.email[1]) : now - attempts[k].createdAt >= DedupWindow

\* the new ledger entry of this sendEmail step has an id no entry had before
CreatedWithNewId ==
    /\ ret'.created
    /\ Len(attempts') = Len(attempts) + 1
    /\ attempts'[Len(attempts')].id = ret'.id[1]
    /\ attempts'[Len(attempts')].createdAt = now
    /\ \A k \in 1..Len(attempts) : attempts[k].id # ret'.id[1] /\ attempts'[k] = attempts[k]

(* C14 as stated - Dedup window expiry: a submission that matches only     *)
(* attempts created at least five minutes earlier creates a new attempt    *)
(* and returns an id different from every existing one.                    *)
C14_ResubmissionReturnsNewId ==
    [][ ResubmittedAfterWindow => (CreatedWithNewId /\ ret'.outcome = "returned") ]_vars

(* C14 - Dedup window expiry: a submission that matches only attempts      *)
(* created at least five minutes earlier creates a new attempt with an id  *)
(* different from every existing one; the id is returned when the rate     *)
(* limiter admits the submission, otherwise the new attempt is             *)
(* rate-limited and the call throws.                                       *)
C14_DedupWindowExpiry ==
    [][ ResubmittedAfterWindow
        => /\ CreatedWithNewId
           /\ IF CountAt(rateLimitState, now) < config.rateLimitPerMinute
              THEN /\ ret'.outcome = "returned"
                   /\ attempts'[Len(attempts')].status \in {QUEUED, SENDING}
              ELSE /\ ret'.outcome = "threw"
                   /\ attempts'[Len(attempts')].status = RATE_LIMITED ]_vars

\* a message sent five minutes ago was submitted again and got a second entry
C14_Witness ==
    /\ ret.outcome = "returned"
    /\ ret.created
    /\ \E k \in 1..Len(attempts) :
          /\ SameMessage(attempts[k].email, ret.email[1])
          /\ attempts[k].status = SENT
          /\ now - attempts[k].createdAt >= DedupWindow
          /\ attempts[k].id # ret.id[1]
          /\ MapGet(attempts, ret.id[1]).createdAt = now

\* every provider was called in the first round of attempt id and failed
AllFailedAtFirst(id) ==
    \A name \in ProviderNames :
        \E c \in CallsOf(id) :
            /\ calls[c].provider = name
            /\ calls[c].round = 0
            /\ calls[c].result = "failure"

\* the events in ev that open the last round of attempt id
LastRoundStart(ev, id) ==
    { e \in 1..Len(ev) : /\ ev[e].id = id
                         /\ ev[e].status = SENDING
                         /\ ev[e].attempts = config.maxRetries }

\* provider name has been set to succeed always before the last round of
\* attempt id began, as ev records it, and has not been set otherwise since
RecoveredBeforeLastRound(name, id, ev) ==
    /\ failureRate[name] = 0
    /\ \E e \in LastRoundStart(ev, id) : rateSetAt[name] < e

\* provider name was called in the last round of attempt id
CalledInLastRound(name, id) ==
    \E c \in CallsOf(id) : calls[c].provider = name /\ calls[c].round = config.maxRetries - 1

\* this step ends attempt k as failed
BecomesFailed(k) ==
    /\ k <= Len(attempts)
    /\ attempts[k].status = SENDING
    /\ attempts'[k].status = FAILED

C13_DrainLiveness ==
    \A k \in 1..MaxFairSubmits :
        (k <= Len(attempts) /\ attempts[k].status \in {QUEUED, SENDING})
        ~> (k <= Len(attempts) /\ attempts[k].status \in {SENT, FAILED})

\* the second attempt, queued behind the first, came to its end after the
\* first one failed with providers that threw, and a throwing listener was
\* called for it
C13_Witness ==
    /\ Len(attempts) = 2
    /\ attempts[1].status = FAILED
    /\ attempts[2].status \in {SENT, FAILED}
    /\ \E c \in CallsOf(attempts[1].id) : calls[c].result = "failure"
    /\ \E e \in AllEventsOf(attempts[2].id) : events[e].caught # <<>>
    /\ \E e \in AllEventsOf(attempts[2].id) :
          \E f \in AllEventsOf(attempts[1].id) : e < f /\ events[e].status = QUEUED

\* the engine after the step
EngineNext ==
    [attempts |-> attempts', circuitBreakers |-> circuitBreakers', queue |-> queue',
     processingQueue |-> processingQueue', rateLimitState |-> rateLimitState',
     pc |-> pc', events |-> events', calls |-> calls',
     eventListeners |-> eventListeners', logs |-> logs']

\* the engine m had no listener ever been subscribed
Unobserved(m) ==
    [m EXCEPT !.eventListeners = [event \in EventKinds |-> <<>>],
              !.events = [k \in 1..Len(m.events) |->
                             [m.events[k] EXCEPT !.delivered = <<>>, !.caught = <<>>]],
              !.logs = SelectSeq(@, LAMBDA e : e.message # "Event listener error")]

(* C18 - Handler isolation: every event is delivered to every listener     *)
(* subscribed to its kind, in order, also after one of them threw; each    *)
(* throw is caught; and sendEmail and the dispatcher end their step as     *)
(* they would have with no listener subscribed.                            *)
C18_HandlerIsolation ==
    /\ [][ \A e \in (Len(events) + 1)..Len(events') :
             /\ events'[e].delivered = eventListeners[events'[e].event]
             /\ events'[e].caught = SelectSeq(events'[e].delivered, Throws) ]_vars
    /\ [][ IsSendEmail =>
             LET r == sendEmail(Unobserved(Engine), ret'.email[1], now)
             IN  /\ Unobserved(EngineNext) = r.engine
                 /\ ret'.outcome = r.outcome
                 /\ ret'.id = r.id
                 /\ ret'.created = r.created ]_vars
    /\ [][ ProviderSucceeds =>
             Unobserved(EngineNext)
                = providerSucceeded(settle(Unobserved(Engine), "success"), now) ]_vars
    /\ [][ ProviderThrows =>
             Unobserved(EngineNext)
                = providerThrew(settle(Unobserved(Engine), "failure"), now) ]_vars
    /\ [][ BackoffEnds =>
             Unobserved(EngineNext)
                = startRound(Unobserved(Engine), pc.id[1], pc.round + 1, now) ]_vars
    /\ [][ AttemptDone => Unobserved(EngineNext) = drain(Unobserved(Engine), now) ]_vars

\* an attempt was sent although a listener threw at each of its updates, and
\* the listener subscribed after the throwing one was called each time
C18_Witness ==
    /\ eventListeners["attemptUpdated"] = <<"thrower", "recorder">>
    /\ \E k \in 1..Len(attempts) :
          /\ attempts[k].status = SENT
          /\ \A e \in EventsOf(attempts[k].id, "attemptUpdated") :
                /\ events[e].delivered = <<"thrower", "recorder">>
                /\ events[e].caught = <<"thrower">>

\* the attempt a listener was called with at the e-th emit, read now: emit
\* passes the ledger's own object
PayloadOf(e) == MapGet(attempts, events[e].id)

(* C19 - Event payload is a snapshot: the attempt a listener was called    *)
(* with keeps the status and the attempt count it had at that publish.     *)
C19_PayloadIsSnapshot ==
    \A e \in 1..Len(events) :
        events[e].delivered # <<>>
        => /\ PayloadOf(e).status = events[e].status
           /\ PayloadOf(e).attempts = events[e].attempts

-----------------------------------------------------------------------------
\* the log after the entries `added` were pushed onto `before`, oldest first
Pushed(before, added) ==
    LET all == before \o added
    IN  IF Len(all) > LogCap THEN SubSeq(all, Len(all) - LogCap + 1, Len(all)) ELSE all

\* the newest n entries of the log
Newest(entries, n) == SubSeq(entries, Len(entries) - n + 1, Len(entries))

\* the fewest entries the step logs: a sendEmail call and a step that makes
\* or settles a provider call log at least one
LeastLogged == IF ret' # ret \/ calls' # calls THEN 1 ELSE 0

(* C21 - Bounded activity log: the log never holds more than 100 entries;  *)
(* every step that does not clear it leaves the old entries in their order *)
(* followed by the entries it logs (fewer than 100 at a time), less the    *)
(* oldest ones beyond 100; and one entry logged into a full log removes    *)
(* exactly the oldest entry.                                               *)
C21_BoundedLog ==
    /\ [](Len(logs) <= LogCap)
    /\ [][\/ ClearLogs
          \/ \E n \in LeastLogged..Min(Len(logs'), LogCap - 1) :
                logs' = Pushed(logs, Newest(logs', n))]_vars
    /\ [][LogCall /\ Len(logs) = LogCap
            => logs' = Append(Tail(logs), logs'[LogCap])]_vars

\* the engine reported a delivery into a log that was full, and the entries
\* of the full log moved up
C21_Witness ==
    /\ Len(logs) = LogCap
    /\ logs[LogCap].message = "Email sent successfully"
    /\ \E k \in 1..(LogCap - 1) :
         /\ logs[k].message = ToString(LogCap)
         /\ \A j \in 1..(k - 1) : logs[j].message = ToString(LogCap - k + j)

(* C22 - Success stops the attempt: once a provider call of an attempt has *)
(* succeeded the attempt is sent with that provider's name and message id  *)
(* recorded, no later provider call is made for it, its round count stays  *)
(* at the round of that call, nothing is published for it after its sent   *)
(* event, and the dispatcher is neither sleeping nor calling for it.       *)
C22_SuccessStops ==
    \A k \in 1..Len(calls) :
        calls[k].result = "success" =>
            LET a == MapGet(attempts, calls[k].id)
            IN  /\ a.status = SENT
                /\ a.provider = Some(calls[k].provider)
                /\ a.messageId # Undefined
                /\ a.messageId[1][1] = calls[k].provider
                /\ \A j \in CallsOf(a.id) : j <= k
                /\ a.attempts = calls[k].round + 1
                /\ \A e \in AllEventsOf(a.id) :
                      events[e].status = SENT => \A f \in AllEventsOf(a.id) : f <= e
                /\ pc.id = Some(a.id) => pc.at = "attemptDone"

\* an attempt was delivered by the second provider in its second round, and
\* the dispatcher has gone on to call a provider for a later attempt
C22_Witness ==
    \E k \in 1..Len(calls) :
        /\ calls[k].result = "success"
        /\ calls[k].round = 1
        /\ calls[k].provider = Providers[2]
        /\ \E j \in (k + 1)..Len(calls) : calls[j].id # calls[k].id

\* the place of a provider in the priority order
ProviderIndex(name) == CHOOSE p \in 1..Len(Providers) : Providers[p] = name

\* the breaker is open and its resume time is still ahead
OpenNotDue(b) ==
    /\ b.isOpen
    /\ b.halfOpenRetryTime = Undefined \/ now < b.halfOpenRetryTime[1]

\* the provider the round of call c was at before the step: the one of the
\* latest call of that attempt and round, or none (0)
ReachedBefore(c) ==
    LET earlier == { j \in 1..Len(calls) : calls[j].id = c.id /\ calls[j].round = c.round }
    IN  IF earlier = {} THEN 0
        ELSE ProviderIndex(calls[CHOOSE j \in earlier : \A i \in earlier : i <= j].provider)

(* C23 - Open breakers are skipped: a step that calls a provider calls one *)
(* whose breaker is not open with its resume time ahead, and every         *)
(* provider between the one the round had reached and the one called has   *)
(* such a breaker: it was passed over and the next one considered.         *)
C23_OpenBreakersSkipped ==
    [][ Len(calls') > Len(calls) =>
          LET c == calls'[Len(calls')]
          IN  /\ Len(calls') = Len(calls) + 1
              /\ ~OpenNotDue(circuitBreakers[c.provider])
              /\ \A p \in (ReachedBefore(c) + 1)..(ProviderIndex(c.provider) - 1) :
                    OpenNotDue(circuitBreakers[Providers[p]]) ]_vars

\* the second provider was called in a round in which the first one, its
\* breaker open, was passed over
C23_Witness ==
    /\ circuitBreakers[Providers[1]].isOpen
    /\ \E k \in 1..Len(logs) : logs[k].message = "Circuit breaker open, skipping provider"
    /\ \E k \in 1..Len(calls) :
          /\ calls[k].provider = Providers[2]
          /\ \A j \in CallsOf(calls[k].id) :
                calls[j].round = calls[k].round => calls[j].provider # Providers[1]

(* C24 - Admission accounting: a sendEmail call that admits a new message  *)
(* leaves the limiter's counter one above what the check found after its   *)
(* lazy reset, and a call that denies leaves the counter and the window    *)
(* expiry as they were.                                                    *)
C24_AdmissionAccounting ==
    [][ (IsSendEmail /\ ret'.created) =>
          /\ ret'.outcome = "returned" =>
                rateLimitState'.count = CountAt(rateLimitState, now) + 1
          /\ ret'.outcome = "threw" =>
                /\ rateLimitState'.count = rateLimitState.count
                /\ rateLimitState'.resetTime = rateLimitState.resetTime ]_vars

(* C25 - Rate-limiter bound: in every state the counter getRateLimitStatus *)
(* reports is at most the limit, and at most `limit` of the attempts in    *)
(* the ledger were admitted since the latest reset of the window.          *)
C25_RateLimiterBound ==
    /\ getRateLimitStatus.current <= getRateLimitStatus.limit
    /\ Cardinality({ k \in Admitted :
                       attempts[k].createdAt >= rateLimitState.resetTime - RateWindow })
          <= config.rateLimitPerMinute

\* the step marks an attempt sent
MarksSent ==
    \E k \in 1..Len(attempts) : attempts[k].status # SENT /\ attempts'[k].status = SENT

(* C26 - A successful delivery does not touch the rate limiter: the step   *)
(* that marks an attempt sent leaves the limiter's counter and window      *)
(* expiry unchanged.                                                       *)
C26_DeliveryLeavesLimiter ==
    [][ MarksSent =>
          /\ rateLimitState'.count = rateLimitState.count
          /\ rateLimitState'.resetTime = rateLimitState.resetTime ]_vars

\* the step settles the pending provider call without success
CallNotSucceeded ==
    /\ pc.at = "provider"
    /\ Len(calls') >= Len(calls)
    /\ calls'[Len(calls)].result \in {"failure", "noSuccess"}

\* the providers after the p-th that the round can still call
CallableAfter(p) ==
    { q \in (p + 1)..Len(Providers) : ~OpenNotDue(circuitBreakers[Providers[q]]) }

(* C27 - Failure accounting: a step in which a provider call ends without  *)
(* success, by a throw or by a result without success, leaves an error of  *)
(* that provider on the attempt, raises that provider's failureCount by    *)
(* one, and goes on to the next provider of the same round that can be     *)
(* called, if there is one.                                                *)
C27_FailureAccounting ==
    [][ CallNotSucceeded =>
          LET id == pc.id[1]
              name == Providers[pc.provider]
              a == MapGet(attempts', id)
              later == CallableAfter(pc.provider)
          IN  /\ a.error # Undefined
              /\ a.error[1][1] = name
              /\ circuitBreakers'[name].failureCount
                    = circuitBreakers[name].failureCount + 1
              /\ IF later = {} THEN Len(calls') = Len(calls)
                 ELSE /\ Len(calls') = Len(calls) + 1
                      /\ calls'[Len(calls')].id = id
                      /\ calls'[Len(calls')].round = pc.round
                      /\ calls'[Len(calls')].provider
                            = Providers[CHOOSE q \in later : \A r \in later : q <= r] ]_vars

\* the step settles the pending call of the provider
Settles(name) ==
    /\ pc.at = "provider"
    /\ Providers[pc.provider] = name
    /\ Len(calls') >= Len(calls)
    /\ calls'[Len(calls)].result # "pending"

\* the step calls the provider after finding its breaker half-open
Probes(name) ==
    /\ Len(calls') > Len(calls)
    /\ calls'[Len(calls')].provider = name
    /\ calls'[Len(calls')].probe

(* C28 - Breaker independence: a step changes the breaker of a provider    *)
(* only by recording the result of that provider's own call or by that     *)
(* provider's own half-open check, which clears isOpen and the resume time *)
(* and nothing else; the breaker of every other provider keeps its         *)
(* failureCount, isOpen flag and resume time.                              *)
C28_BreakerIndependence ==
    [][ \A name \in ProviderNames :
          ~Settles(name) =>
              IF Probes(name)
              THEN circuitBreakers'[name]
                     = [circuitBreakers[name] EXCEPT !.isOpen = FALSE,
                                                     !.halfOpenRetryTime = Undefined]
              ELSE circuitBreakers'[name] = circuitBreakers[name] ]_vars

\* the first provider failed its probe and is open again with three
\* failures, while the second, which delivered after it, has a clean breaker
C28_Witness ==
    /\ circuitBreakers[Providers[1]].isOpen
    /\ circuitBreakers[Providers[1]].failureCount > config.circuitBreakerThreshold
    /\ circuitBreakers[Providers[2]].failureCount = 0
    /\ ~circuitBreakers[Providers[2]].isOpen
    /\ \E k \in 1..Len(calls) :
          /\ calls[k].provider = Providers[1]
          /\ calls[k].probe
          /\ calls[k].result = "failure"
          /\ \E j \in (k + 1)..Len(calls) :
                calls[j].provider = Providers[2] /\ calls[j].result = "success"

\* the 'retrying after delay' entries of the log: one for every sleep
SleepsLogged ==
    Cardinality({ k \in 1..Len(logs) :
                    logs[k].message = "All providers failed, retrying after delay" })

\* the rounds after their first that the first k attempts of the ledger have begun
RECURSIVE LaterRounds(_)
LaterRounds(k) ==
    IF k = 0 THEN 0
    ELSE LaterRounds(k - 1) + (IF attempts[k].attempts > 1 THEN attempts[k].attempts - 1 ELSE 0)

\* the step puts the dispatcher to sleep
FallsAsleep == pc'.at = "backoff" /\ pc' # pc

\* the step begins a round after the first of the k-th attempt
BeginsLaterRound(k) ==
    attempts[k].attempts >= 1 /\ attempts'[k].attempts = attempts[k].attempts + 1

(* C29 - Backoff schedule: the dispatcher falls asleep only after a round  *)
(* i < N-1 of an attempt in which no call succeeded, and then until        *)
(* exactly min(initialDelay * backoffMultiplier^i, maxDelay) from now,     *)
(* which is at most maxDelay; round i+1 begins only out of the sleep       *)
(* after round i, once that time has come; there have been as many sleeps  *)
(* as rounds after the first were begun, plus the one under way; and a     *)
(* failed attempt has had N rounds, so N-1 sleeps and none after the last. *)
C29_BackoffSchedule ==
    /\ [][ FallsAsleep =>
            LET i == pc'.round
                a == MapGet(attempts', pc'.id[1])
                delay == pc'.wakeAt - now
                scheduled == config.initialDelayMs * (config.backoffMultiplier ^ i)
            IN  /\ i < config.maxRetries - 1
                /\ a.attempts = i + 1
                /\ a.status = SENDING
                /\ \A c \in 1..Len(calls') :
                      calls'[c].id = a.id => calls'[c].result \in {"failure", "noSuccess"}
                /\ delay = IF scheduled <= config.maxDelayMs
                           THEN scheduled ELSE config.maxDelayMs
                /\ delay <= config.maxDelayMs ]_vars
    /\ [][ \A k \in 1..Len(attempts) :
              BeginsLaterRound(k) =>
                  /\ pc.at = "backoff"
                  /\ pc.id = Some(attempts[k].id)
                  /\ pc.round + 1 = attempts[k].attempts
                  /\ now >= pc.wakeAt ]_vars
    /\ [](SleepsLogged = LaterRounds(Len(attempts))
                           + (IF pc.at = "backoff" THEN 1 ELSE 0))
    /\ [](\A k \in 1..Len(attempts) :
              attempts[k].status = FAILED =>
                  /\ attempts[k].attempts = config.maxRetries
                  /\ pc.id = Some(attempts[k].id) => pc.at = "attemptDone")

\* an attempt has failed after two sleeps, the first as scheduled and the
\* second cut to the cap
C29_Witness ==
    /\ Len(attempts) = 1
    /\ attempts[1].status = FAILED
    /\ SleepsLogged = config.maxRetries - 1
    /\ config.initialDelayMs < config.maxDelayMs
    /\ config.initialDelayMs * config.backoffMultiplier > config.maxDelayMs
    /\ now = config.initialDelayMs + config.maxDelayMs

\* the pairs of ledger entries, in the order of their creation, that hold the
\* same (to, subject, body) and were created less than the dedup window apart
SameTripleInWindow ==
    { <<j, k>> \in (1..Len(attempts)) \X (1..Len(attempts)) :
        /\ j < k
        /\ SameMessage(attempts[j].email, attempts[k].email)
        /\ attempts[k].createdAt - attempts[j].createdAt < DedupWindow }

(* C30 - Dedup invariant, as stated: in every state the ledger holds no    *)
(* two attempts with the same (to, subject, body) that were created less   *)
(* than the dedup window apart.                                            *)
C30_OnePerTriple == SameTripleInWindow = {}

(* C30 - Dedup invariant, amended: of two attempts with the same (to,      *)
(* subject, body) created less than the dedup window apart the earlier one *)
(* is failed, so among them at most one is not failed.                     *)
C30_OneUnfailedPerTriple ==
    \A pair \in SameTripleInWindow : attempts[pair[1]].status = FAILED

\* a message was submitted again after its attempt had failed, and its new
\* attempt has been admitted
C30_Witness ==
    \E pair \in SameTripleInWindow :
        /\ attempts[pair[1]].status = FAILED
        /\ attempts[pair[2]].status \in {QUEUED, SENDING, SENT}

\* the step changes a field of the k-th attempt of the ledger
Mutates(k) ==
    \/ attempts'[k].status # attempts[k].status
    \/ attempts'[k].attempts # attempts[k].attempts
    \/ attempts'[k].error # attempts[k].error
    \/ attempts'[k].provider # attempts[k].provider
    \/ attempts'[k].messageId # attempts[k].messageId
    \/ attempts'[k].sentAt # attempts[k].sentAt

\* the events the step publishes, as indices into events'
Published == (Len(events) + 1)..Len(events')

(* C31 - Update notification per mutation: a step that changes the status, *)
(* attempt count, error, provider, messageId or sent-at of an attempt in   *)
(* the ledger publishes, before it ends, an attemptUpdated event of that   *)
(* attempt with the status and attempt count the step leaves, and writes   *)
(* an entry to the log.                                                    *)
C31_UpdatePerMutation ==
    [][ \A k \in 1..Len(attempts) :
          Mutates(k) =>
              /\ \E e \in Published :
                    /\ events'[e].event = "attemptUpdated"
                    /\ events'[e].id = attempts[k].id
                    /\ events'[e].status = attempts'[k].status
                    /\ events'[e].attempts = attempts'[k].attempts
              /\ logs' # logs ]_vars

\* the attempts the dispatcher is sending
SendingNow == { k \in 1..Len(attempts) : attempts[k].status = SENDING }

\* the provider calls that have not settled
PendingCalls == { c \in 1..Len(calls) : calls[c].result = "pending" }

(* C32 - Single drain loop: the drain flag is set exactly while the one    *)
(* drain loop is suspended; at most one attempt is sending, the one the    *)
(* loop is at, and at most one provider call is pending, the one the loop  *)
(* awaits; a sendEmail call made while the flag is set leaves the loop,    *)
(* the provider calls and the attempts in the ledger as they are and at    *)
(* most appends its new attempt to the queue.                              *)
C32_SingleDrainLoop ==
    /\ [](/\ getQueueStatus.processing <=> pc.at # "idle"
          /\ Cardinality(SendingNow) <= 1
          /\ Cardinality(PendingCalls) <= 1
          /\ \A k \in SendingNow : pc.id = Some(attempts[k].id)
          /\ \A c \in PendingCalls :
                /\ c = Len(calls)
                /\ pc.at = "provider"
                /\ pc.id = Some(calls[c].id))
    /\ [][ (IsSendEmail /\ getQueueStatus.processing) =>
            /\ pc' = pc
            /\ calls' = calls
            /\ processingQueue'
            /\ \A k \in 1..Len(attempts) : attempts'[k] = attempts[k]
            /\ \/ queue' = queue
               \/ /\ ret'.created
                  /\ ret'.outcome = "returned"
                  /\ queue' = Append(queue, ret'.id[1])
                  /\ attempts'[Len(attempts')].status = QUEUED ]_vars

\* two messages were submitted and queued while the loop awaits the
\* provider call of the first
C32_Witness ==
    /\ getQueueStatus.processing
    /\ pc.at = "provider"
    /\ Len(attempts) = 3
    /\ pc.id = Some(attempts[1].id)
    /\ SendingNow = {1}
    /\ queue = <<attempts[2].id, attempts[3].id>>

(* C33 - Dedup runs before admission: a sendEmail call with a message that *)
(* matches an attempt that is not failed and was created less than the     *)
(* dedup window ago returns the id of such an attempt, whatever the        *)
(* limiter's counter, and leaves the ledger, the queue, the events and the *)
(* limiter's counter and window expiry as they were.                       *)
C33_DedupBeforeAdmission ==
    [][ (IsSendEmail /\ Duplicates(attempts, ret'.email[1], now) # {}) =>
          /\ ret'.outcome = "returned"
          /\ ~ret'.created
          /\ \E k \in Duplicates(attempts, ret'.email[1], now) :
                ret'.id = Some(attempts[k].id)
          /\ attempts' = attempts
          /\ queue' = queue
          /\ events' = events
          /\ rateLimitState' = rateLimitState ]_vars

\* the latest thing the engine logged is a duplicate, of a message that was
\* delivered, submitted while the limiter's counter is at its ceiling
C33_Witness ==
    /\ logs[Len(logs)].message = "Duplicate email detected"
    /\ ret.outcome = "returned"
    /\ ~ret.created
    /\ MapGet(attempts, ret.id[1]).status = SENT
    /\ rateLimitState.count >= config.rateLimitPerMinute
    /\ now < rateLimitState.resetTime

\* the calls of the provider made so far
CallsTo(name) == { c \in 1..Len(calls) : calls[c].provider = name }

\* the latest call of the provider was a half-open probe that failed
LastProbeFailed(name) ==
    /\ CallsTo(name) # {}
    /\ LET last == CHOOSE c \in CallsTo(name) : \A d \in CallsTo(name) : d <= c
       IN  calls[last].probe /\ calls[last].result = "failure"

(* C34 - Probe failure reopens: the step in which a call made as a         *)
(* half-open probe fails leaves that provider's breaker open with resume   *)
(* time now + reset interval; and a provider whose latest call was a       *)
(* failed probe is called again only as a probe, once that resume time     *)
(* has come.                                                               *)
C34_ProbeFailureReopens ==
    /\ [][ (/\ pc.at = "provider"
            /\ calls[Len(calls)].probe
            /\ Len(calls') >= Len(calls)
            /\ calls'[Len(calls)].result = "failure")
           => LET name == calls[Len(calls)].provider
              IN  /\ ~circuitBreakers[name].isOpen
                  /\ circuitBreakers'[name].isOpen
                  /\ circuitBreakers'[name].halfOpenRetryTime
                        = Some(now + config.circuitBreakerResetTime) ]_vars
    /\ [][ \A name \in ProviderNames :
              (/\ LastProbeFailed(name)
               /\ Len(calls') > Len(calls)
               /\ calls'[Len(calls')].provider = name)
              => /\ calls'[Len(calls')].probe
                 /\ ResumeTimeElapsed(circuitBreakers[name]) ]_vars
    /\ [](\A name \in ProviderNames :
              LastProbeFailed(name) =>
                  /\ circuitBreakers[name].isOpen
                  /\ circuitBreakers[name].halfOpenRetryTime # Undefined)

\* a probe of the first provider failed, the next call went to the second
\* provider, and the first was called again later, as a probe
C34_Witness ==
    \E c \in CallsTo(Providers[1]) : \E d \in CallsTo(Providers[1]) :
        /\ c < d
        /\ calls[c].probe
        /\ calls[c].result = "failure"
        /\ calls[c + 1].provider = Providers[2]
        /\ calls[d].probe

(* C35 - No silently lost message: a sendEmail call that returns an id,    *)
(* new or of a duplicate, returns the id of an attempt that is queued,     *)
(* sending or sent, never that of a rate-limited attempt, which is never   *)
(* dispatched.                                                             *)
C35_ReturnedIdIsDispatched ==
    [][ (IsSendEmail /\ ret'.outcome = "returned") =>
          /\ MapHas(attempts', ret'.id[1])
          /\ MapGet(attempts', ret'.id[1]).status \in {QUEUED, SENDING, SENT} ]_vars

\* the ids in the queue
InQueue == { queue[k] : k \in 1..Len(queue) }

(* C36 - No stranded work: while the drain flag getQueueStatus reports is  *)
(* false the queue is empty and no attempt is queued or sending; the       *)
(* queued attempts are exactly those in the queue; while the queue is not  *)
(* empty the drain loop is suspended in an await with the flag set; and    *)
(* when the loop resumes from the attempt it has finished it takes the     *)
(* head of the queue.                                                      *)
C36_NoStrandedWork ==
    /\ [](/\ ~getQueueStatus.processing =>
                /\ getQueueStatus.queueLength = 0
                /\ \A k \in 1..Len(attempts) : attempts[k].status \notin {QUEUED, SENDING}
          /\ \A k \in 1..Len(attempts) :
                attempts[k].status = QUEUED <=> attempts[k].id \in InQueue
          /\ queue # <<>> => getQueueStatus.processing /\ pc.at # "idle")
    /\ [][ (pc.at = "attemptDone" /\ pc' # pc) =>
            IF queue # <<>>
            THEN /\ queue' = Tail(queue)
                 /\ pc'.id = Some(Head(queue))
                 /\ MapGet(attempts', Head(queue)).status # QUEUED
            ELSE pc' = Idle /\ ~processingQueue' ]_vars

\* the loop has gone idle after two attempts that failed and one that was
\* rate-limited or a duplicate
C36_Witness ==
    /\ ~getQueueStatus.processing
    /\ ret.n = 3
    /\ Len(attempts) >= 2
    /\ attempts[1].status = FAILED
    /\ attempts[2].status = FAILED

C38_BreakerInvariant ==
    \A p \in 1..Len(Providers) :
        LET b == circuitBreakers[Providers[p]]
        IN  /\ b.isOpen =>
                  /\ b.failureCount >= config.circuitBreakerThreshold
                  /\ b.halfOpenRetryTime # Undefined
            /\ b.failureCount = 0 =>
                  /\ ~b.isOpen
                  /\ b.halfOpenRetryTime = Undefined

\* one breaker is open while another, whose provider failed and then
\* succeeded, is back at a failure count of 0
C38_Witness ==
    \E p, q \in 1..Len(Providers) :
        /\ circuitBreakers[Providers[p]].isOpen
        /\ circuitBreakers[Providers[q]].failureCount = 0
        /\ \E c, d \in CallsTo(Providers[q]) :
              c < d /\ calls[c].result = "failure" /\ calls[d].result = "success"

(* C39 - Attempt record invariant: every attempt has an attempt count       *)
(* between 0 and its maxAttempts, which is maxRetries; the count is 0      *)
(* while the status is pending, queued or rate_limited; and each of        *)
(* provider, messageId and sentAt is set exactly when the status is sent.  *)
C39_AttemptInvariant ==
    \A k \in 1..Len(attempts) :
        LET a == attempts[k]
        IN  /\ a.maxAttempts = config.maxRetries
            /\ 0 <= a.attempts /\ a.attempts <= a.maxAttempts
            /\ a.status \in {PENDING, QUEUED, RATE_LIMITED} => a.attempts = 0
            /\ a.provider # Undefined <=> a.status = SENT
            /\ a.messageId # Undefined <=> a.status = SENT
            /\ a.sentAt # Undefined <=> a.status = SENT

\* one attempt was sent in its last round, another has failed, and a third
\* is rate-limited or waits in the queue
C39_Witness ==
    \E i, j, k \in 1..Len(attempts) :
        /\ attempts[i].status = SENT
        /\ attempts[i].attempts = attempts[i].maxAttempts
        /\ attempts[i].provider # Undefined
        /\ attempts[j].status = FAILED
        /\ attempts[k].status \in {QUEUED, RATE_LIMITED}

====
